---- MODULE Spec2Model ----
(***************************************************************************)
(* Microsoft Crypto API key blob decoder (refinery/lib/mscrypto.py).       *)
(* A blob is a byte buffer; CRYPTOKEY reads the 8 byte BLOBHEADER, selects *)
(* a payload structure by (type, algorithm) and decodes it; a private RSA  *)
(* key is checked for consistency before it is handed to the caller.       *)
(*                                                                         *)
(* Bytes are integers 0..255.  A 32 bit algorithm identifier is kept as    *)
(* the pair <<high word, low word>> of its two 16 bit halves.              *)
(***************************************************************************)
EXTENDS Integers, Sequences, FiniteSets, TLC

VARIABLES buf, inp, pos, pc, variant, header, key, err, result

vars == <<buf, inp, pos, pc, variant, header, key, err, result>>

(***************************************************************************)
(* Bounds of the explored inputs.                                          *)
(***************************************************************************)
MaxPrime == 5
MaxRem == 2
MaxPrivExp == 3
MaxData == 3

(***************************************************************************)
(* Enum registries.                                                        *)
(***************************************************************************)
KEYSTATEBLOB == 12
OPAQUEKEYBLOB == 9
PLAINTEXTKEYBLOB_T == 8
PRIVATEKEYBLOB_T == 7
PUBLICKEYBLOB == 6
PUBLICKEYBLOBEX == 10
SIMPLEBLOB_T == 1
SYMMETRICWRAPKEYBLOB == 11

TYPES ==
    { KEYSTATEBLOB, OPAQUEKEYBLOB, PLAINTEXTKEYBLOB_T, PRIVATEKEYBLOB_T,
      PUBLICKEYBLOB, PUBLICKEYBLOBEX, SIMPLEBLOB_T, SYMMETRICWRAPKEYBLOB }

CALG_RSA_KEYX == <<\h0000, \hA400>>
CALG_RSA_SIGN == <<\h0000, \h2400>>

ALGORITHMS ==
    { <<\h0000, \h6603>>, <<\h0000, \h6609>>, <<\h0000, \h6611>>,
      <<\h0000, \h660E>>, <<\h0000, \h660F>>, <<\h0000, \h6610>>,
      <<\h0000, \hAA03>>, <<\h0000, \h660C>>, <<\h0000, \h6601>>,
      <<\h0000, \h6604>>, <<\h0000, \hAA02>>, <<\h0000, \hAA01>>,
      <<\h0000, \h2200>>, <<\h0000, \hAA05>>, <<\h0000, \hAE06>>,
      <<\h0000, \h2203>>, <<\h0000, \hA001>>, <<\h0000, \h800B>>,
      <<\h0000, \hA003>>, <<\h0000, \h8009>>, <<\h0000, \hAA04>>,
      <<\h0000, \h8005>>, <<\h0000, \h8001>>, <<\h0000, \h8002>>,
      <<\h0000, \h8003>>, <<\h0000, \h2000>>, <<\hFFFF, \hFFFF>>,
      <<\hFFFF, \hFFFE>>, <<\h0000, \h4C04>>, <<\h0000, \h6602>>,
      <<\h0000, \h6801>>, <<\h0000, \h660D>>, CALG_RSA_KEYX,
      CALG_RSA_SIGN, <<\h0000, \h4C07>>, <<\h0000, \h4C03>>,
      <<\h0000, \h4C02>>, <<\h0000, \h6802>>, <<\h0000, \h8004>>,
      <<\h0000, \h800C>>, <<\h0000, \h800D>>, <<\h0000, \h800E>>,
      <<\h0000, \h660A>>, <<\h0000, \h4C05>>, <<\h0000, \h4C01>>,
      <<\h0000, \h8008>>, <<\h0000, \h660B>>, <<\h0000, \h4C06>>,
      <<\h0000, \h800A>>}

(***************************************************************************)
(* Magic signatures (byte strings of the source).                          *)
(***************************************************************************)
SIMPLE_MAGIC == <<0, 0, 164, 0>>
RSA2 == <<82, 83, 65, 50>>
RSA1 == <<82, 83, 65, 49>>
DH1 == <<0, 68, 72, 49>>
DH2 == <<0, 68, 72, 50>>

(***************************************************************************)
(* Integer conversions.                                                    *)
(***************************************************************************)
Min(a, b) == IF a < b THEN a ELSE b

RECURSIVE FromLE(_)
\* int.from_bytes(bytes, 'little')
FromLE(bytes) ==
    IF bytes = <<>> THEN 0 ELSE Head(bytes) + 256 * FromLE(Tail(bytes))

RECURSIVE ToLE(_, _)
\* n.to_bytes(k, 'little') for a value that fits; the low k bytes otherwise
ToLE(n, k) ==
    IF k = 0 THEN <<>> ELSE <<n % 256>> \o ToLE(n \div 256, k - 1)

\* Python floor division for a non-zero divisor
FloorDiv(a, b) == IF b > 0 THEN a \div b ELSE (0 - a) \div (0 - b)

\* Python % for a non-zero divisor (the result has the sign of the divisor)
PyMod(a, b) == a - b * FloorDiv(a, b)

Abs(a) == IF a < 0 THEN 0 - a ELSE a

RECURSIVE Euclid(_, _)
Euclid(a, b) == IF b = 0 THEN a ELSE Euclid(b, a % b)

\* math.gcd
gcd(a, b) == Euclid(Abs(a), Abs(b))

(***************************************************************************)
(* StructReader: a forward-only cursor i (bytes consumed) over buffer b.   *)
(* Every operation returns [ok, pos, data].                                *)
(***************************************************************************)
\* file-like read: up to n bytes, fewer at the end of the buffer
read(b, i, n) ==
    [ok |-> TRUE, pos |-> Min(i + n, Len(b)),
     data |-> SubSeq(b, i + 1, Min(i + n, Len(b)))]

\* exactly n bytes, or failure when fewer remain
read_exactly(b, i, n) ==
    IF Len(b) - i < n
    THEN [ok |-> FALSE, pos |-> i, data |-> <<>>]
    ELSE [ok |-> TRUE, pos |-> i + n, data |-> SubSeq(b, i + 1, i + n)]

\* a fixed layout of n bytes in total
read_struct(b, i, n) == read_exactly(b, i, n)

\* a 4 byte little-endian unsigned integer
read_dword(b, i) ==
    LET r == read_exactly(b, i, 4)
    IN  [ok |-> r.ok, pos |-> r.pos, data |-> r.data,
         value |-> IF r.ok THEN FromLE(r.data) ELSE 0]

\* an unsigned little-endian integer of n bytes
read_bigint(b, i, n) ==
    LET r == read_exactly(b, i, n)
    IN  [ok |-> r.ok, pos |-> r.pos, data |-> r.data,
         value |-> IF r.ok THEN FromLE(r.data) ELSE 0]

(***************************************************************************)
(* Structures under construction.  Unset marks an attribute that has not   *)
(* been assigned, NoBytes a byte string attribute that has not.            *)
(***************************************************************************)
Unset == 0 - 1
NoBytes == <<Unset>>
NoAlgorithm == <<Unset, Unset>>

EmptyHeader ==
    [type |-> Unset, version |-> Unset, reserved |-> Unset,
     algorithm |-> NoAlgorithm]

EmptyKey ==
    [kind |-> "none", magic |-> NoBytes, size |-> Unset, data |-> NoBytes,
     pubexp |-> Unset, modulus |-> Unset,
     prime1 |-> Unset, prime2 |-> Unset, exp1 |-> Unset, exp2 |-> Unset,
     coefficient |-> Unset, exponent |-> Unset,
     public |-> Unset, prime |-> Unset, generator |-> Unset]

\* the decoding state handed from one constructor to the next
At(i, k) == [pos |-> i, err |-> "none", key |-> k]

Fail(s, kind) == [s EXCEPT !.err = kind]

(***************************************************************************)
(* BLOBHEADER.__init__                                                     *)
(***************************************************************************)
BLOBHEADER(b, i) ==
    LET r == read_struct(b, i, 8)
        t == r.data[1]
        a == <<FromLE(SubSeq(r.data, 7, 8)), FromLE(SubSeq(r.data, 5, 6))>>
        h == [EmptyHeader EXCEPT !.version = r.data[2],
                                 !.reserved = FromLE(SubSeq(r.data, 3, 4))]
    IN  IF ~r.ok
        THEN [pos |-> r.pos, err |-> "Underflow", header |-> EmptyHeader]
        ELSE IF t \notin TYPES
        THEN [pos |-> r.pos, err |-> "UnknownEnumValue", header |-> h]
        ELSE IF a \notin ALGORITHMS
        THEN [pos |-> r.pos, err |-> "UnknownEnumValue",
              header |-> [h EXCEPT !.type = t]]
        ELSE [pos |-> r.pos, err |-> "none",
              header |-> [h EXCEPT !.type = t, !.algorithm = a]]

(***************************************************************************)
(* PLAINTEXTKEYBLOB.__init__                                               *)
(***************************************************************************)
PLAINTEXTKEYBLOB(b, s) ==
    LET n == read_dword(b, s.pos)
        d == read_exactly(b, n.pos, n.value)
    IN  IF ~n.ok THEN Fail(s, "Underflow")
        ELSE IF ~d.ok
        THEN [pos |-> d.pos, err |-> "Underflow",
              key |-> [s.key EXCEPT !.size = n.value]]
        ELSE [pos |-> d.pos, err |-> "none",
              key |-> [s.key EXCEPT !.size = n.value, !.data = d.data]]

(***************************************************************************)
(* SIMPLEBLOB.__init__: self.size is read on line 100 but no line of the   *)
(* constructor assigns it, and the dispatcher passes no size: the read of  *)
(* the attribute fails.                                                    *)
(***************************************************************************)
SIMPLEBLOB(b, s) ==
    LET m == read_exactly(b, s.pos, 4)
        k == [s.key EXCEPT !.magic = m.data]
    IN  IF ~m.ok THEN Fail(s, "Underflow")
        ELSE IF m.data # SIMPLE_MAGIC
        THEN [pos |-> m.pos, err |-> "InvalidMagic", key |-> k]
        ELSE IF k.size = Unset
        THEN [pos |-> m.pos, err |-> "AttributeError", key |-> k]
        ELSE LET d == read(b, m.pos, k.size)
             IN  [pos |-> d.pos, err |-> "none",
                  key |-> [k EXCEPT !.data = d.data]]

\* RSAPUBKEY_head without the test of the bit length
RSAPUBKEY_head_unchecked(b, s) ==
    LET m == read(b, s.pos, 4)
        f == read_struct(b, m.pos, 8)
        k == [s.key EXCEPT !.magic = m.data]
    IN  IF m.data \notin {RSA2, RSA1}
        THEN [pos |-> m.pos, err |-> "InvalidMagic", key |-> k]
        ELSE IF ~f.ok
        THEN [pos |-> f.pos, err |-> "Underflow", key |-> k]
        ELSE [pos |-> f.pos, err |-> "none",
              key |-> [k EXCEPT !.size = FromLE(SubSeq(f.data, 1, 4)) \div 8,
                                !.pubexp = FromLE(SubSeq(f.data, 5, 8))]]

(***************************************************************************)
(* RSAPUBKEY.__init__, lines 105-111: magic, bit length and exponent.      *)
(***************************************************************************)
RSAPUBKEY_head(b, s) ==
    LET m == read(b, s.pos, 4)
        f == read_struct(b, m.pos, 8)
        size == FromLE(SubSeq(f.data, 1, 4))
        exponent == FromLE(SubSeq(f.data, 5, 8))
        k == [s.key EXCEPT !.magic = m.data]
    IN  IF m.data \notin {RSA2, RSA1}
        THEN [pos |-> m.pos, err |-> "InvalidMagic", key |-> k]
        ELSE IF ~f.ok
        THEN [pos |-> f.pos, err |-> "Underflow", key |-> k]
        ELSE IF size % 8 # 0
        THEN [pos |-> f.pos, err |-> "InvalidBitLength",
              key |-> [k EXCEPT !.size = size, !.pubexp = exponent]]
        ELSE [pos |-> f.pos, err |-> "none",
              key |-> [k EXCEPT !.size = size \div 8, !.pubexp = exponent]]

(***************************************************************************)
(* RSAPUBKEY.__init__, line 112: the modulus.                              *)
(***************************************************************************)
RSAPUBKEY_modulus(b, s) ==
    LET r == read_bigint(b, s.pos, s.key.size)
    IN  IF ~r.ok THEN Fail(s, "Underflow")
        ELSE [pos |-> r.pos, err |-> "none",
              key |-> [s.key EXCEPT !.modulus = r.value]]

RSAPUBKEY(b, s) ==
    LET h == RSAPUBKEY_head(b, s)
    IN  IF h.err # "none" THEN h ELSE RSAPUBKEY_modulus(b, h)

(***************************************************************************)
(* PRIVATEKEYBLOB.__init__, lines 124-130: the six integers that follow    *)
(* the public key, each read with halfsize bytes.                          *)
(***************************************************************************)
PRIVATEKEYBLOB_fields(b, s) ==
    LET halfsize == s.key.size \div 2
        \* the cursor stands j * halfsize bytes on after j successful reads
        r1 == read_bigint(b, s.pos, halfsize)
        r2 == read_bigint(b, s.pos + halfsize, halfsize)
        r3 == read_bigint(b, s.pos + 2 * halfsize, halfsize)
        r4 == read_bigint(b, s.pos + 3 * halfsize, halfsize)
        r5 == read_bigint(b, s.pos + 4 * halfsize, halfsize)
        r6 == read_bigint(b, s.pos + 5 * halfsize, halfsize)
    IN  IF ~r6.ok
        THEN [pos |-> s.pos + halfsize * ((Len(b) - s.pos) \div halfsize),
              err |-> "Underflow", key |-> s.key]
        ELSE [pos |-> r6.pos, err |-> "none",
              key |-> [s.key EXCEPT !.prime1 = r1.value,
                                    !.prime2 = r2.value,
                                    !.exp1 = r3.value,
                                    !.exp2 = r4.value,
                                    !.coefficient = r5.value,
                                    !.exponent = r6.value]]

(***************************************************************************)
(* PRIVATEKEYBLOB._check                                                   *)
(***************************************************************************)
\* the Euler product in place of the reduced totient
totient_euler(prime1, prime2) == (prime1 - 1) * (prime2 - 1)

\* lines 137-139, for a non-zero gcd
totient(prime1, prime2) ==
    FloorDiv((prime1 - 1) * (prime2 - 1), gcd(prime1 - 1, prime2 - 1))

\* line 134: the comparison that decides the first ValueError
factors_differ(modulus, prime1, prime2) ==
    FloorDiv(modulus, prime1) # prime2

_check(s) ==
    LET k == s.key
    IN  IF k.prime1 = 0 THEN Fail(s, "ZeroDivisionError")
        ELSE IF factors_differ(k.modulus, k.prime1, k.prime2)
        THEN Fail(s, "InconsistentKeyMaterial")
        ELSE IF gcd(k.prime1 - 1, k.prime2 - 1) = 0
        THEN Fail(s, "ZeroDivisionError")
        ELSE IF totient(k.prime1, k.prime2) = 0
        THEN Fail(s, "ZeroDivisionError")
        ELSE IF PyMod(k.pubexp * k.exponent, totient(k.prime1, k.prime2)) # 1
        THEN Fail(s, "InconsistentKeyMaterial")
        ELSE s

PRIVATEKEYBLOB(b, s) ==
    LET p == RSAPUBKEY(b, s)
        f == PRIVATEKEYBLOB_fields(b, p)
    IN  IF p.err # "none" THEN p
        ELSE IF f.err # "none" THEN f
        ELSE _check(f)

(***************************************************************************)
(* DHPUBKEY.__init__, lines 173-178: magic and bit length.                 *)
(***************************************************************************)
DHPUBKEY_head(b, s) ==
    LET f == read_struct(b, s.pos, 8)
        magic == SubSeq(f.data, 1, 4)
        size == FromLE(SubSeq(f.data, 5, 8))
        k == [s.key EXCEPT !.magic = magic, !.size = size]
    IN  IF ~f.ok THEN Fail(s, "Underflow")
        ELSE IF magic \notin {DH1, DH2}
        THEN [pos |-> f.pos, err |-> "InvalidMagic", key |-> k]
        ELSE IF size % 8 # 0
        THEN [pos |-> f.pos, err |-> "InvalidBitLength", key |-> k]
        ELSE [pos |-> f.pos, err |-> "none",
              key |-> [k EXCEPT !.size = size \div 8]]

(***************************************************************************)
(* DHPUBKEY.__init__, lines 179-181: public value, prime and generator.    *)
(***************************************************************************)
DHPUBKEY_ints(b, s) ==
    LET r1 == read_bigint(b, s.pos, s.key.size)
        r2 == read_bigint(b, s.pos + s.key.size, s.key.size)
        r3 == read_bigint(b, s.pos + 2 * s.key.size, s.key.size)
    IN  IF ~r3.ok
        THEN [pos |-> s.pos + s.key.size * ((Len(b) - s.pos) \div s.key.size),
              err |-> "Underflow", key |-> s.key]
        ELSE [pos |-> r3.pos, err |-> "none",
              key |-> [s.key EXCEPT !.public = r1.value,
                                    !.prime = r2.value,
                                    !.generator = r3.value]]

DHPUBKEY(b, s) ==
    LET h == DHPUBKEY_head(b, s)
    IN  IF h.err # "none" THEN h ELSE DHPUBKEY_ints(b, h)

\* select with SYMMETRICWRAPKEYBLOB missing from the unsupported types
select_wrap(h) ==
    IF h.type \in {KEYSTATEBLOB, OPAQUEKEYBLOB}
    THEN [err |-> "UnsupportedBlobType", variant |-> "none"]
    ELSE IF h.type = PLAINTEXTKEYBLOB_T
    THEN [err |-> "none", variant |-> "PLAINTEXTKEYBLOB"]
    ELSE IF h.type = SIMPLEBLOB_T
    THEN [err |-> "none", variant |-> "SIMPLEBLOB"]
    ELSE IF h.algorithm \notin {CALG_RSA_KEYX, CALG_RSA_SIGN}
    THEN [err |-> "UnsupportedAlgorithm", variant |-> "none"]
    ELSE IF h.type = PRIVATEKEYBLOB_T
    THEN [err |-> "none", variant |-> "PRIVATEKEYBLOB"]
    ELSE IF h.type = PUBLICKEYBLOB
    THEN [err |-> "none", variant |-> "RSAPUBKEY"]
    ELSE IF h.type = PUBLICKEYBLOBEX
    THEN [err |-> "none", variant |-> "DHPUBKEY"]
    ELSE [err |-> "none", variant |-> "none"]

\* select with the algorithm test applied to the signature algorithm only
select_keyx(h) ==
    IF h.type \in {KEYSTATEBLOB, OPAQUEKEYBLOB, SYMMETRICWRAPKEYBLOB}
    THEN [err |-> "UnsupportedBlobType", variant |-> "none"]
    ELSE IF h.type = PLAINTEXTKEYBLOB_T
    THEN [err |-> "none", variant |-> "PLAINTEXTKEYBLOB"]
    ELSE IF h.type = SIMPLEBLOB_T
    THEN [err |-> "none", variant |-> "SIMPLEBLOB"]
    ELSE IF h.algorithm = CALG_RSA_SIGN
    THEN [err |-> "UnsupportedAlgorithm", variant |-> "none"]
    ELSE IF h.type = PRIVATEKEYBLOB_T
    THEN [err |-> "none", variant |-> "PRIVATEKEYBLOB"]
    ELSE IF h.type = PUBLICKEYBLOB
    THEN [err |-> "none", variant |-> "RSAPUBKEY"]
    ELSE IF h.type = PUBLICKEYBLOBEX
    THEN [err |-> "none", variant |-> "DHPUBKEY"]
    ELSE [err |-> "none", variant |-> "none"]

\* select without the branch of PUBLICKEYBLOBEX
select_no_dh(h) ==
    IF h.type \in {KEYSTATEBLOB, OPAQUEKEYBLOB, SYMMETRICWRAPKEYBLOB}
    THEN [err |-> "UnsupportedBlobType", variant |-> "none"]
    ELSE IF h.type = PLAINTEXTKEYBLOB_T
    THEN [err |-> "none", variant |-> "PLAINTEXTKEYBLOB"]
    ELSE IF h.type = SIMPLEBLOB_T
    THEN [err |-> "none", variant |-> "SIMPLEBLOB"]
    ELSE IF h.algorithm \notin {CALG_RSA_KEYX, CALG_RSA_SIGN}
    THEN [err |-> "UnsupportedAlgorithm", variant |-> "none"]
    ELSE IF h.type = PRIVATEKEYBLOB_T
    THEN [err |-> "none", variant |-> "PRIVATEKEYBLOB"]
    ELSE IF h.type = PUBLICKEYBLOB
    THEN [err |-> "none", variant |-> "RSAPUBKEY"]
    ELSE [err |-> "none", variant |-> "none"]

(***************************************************************************)
(* CRYPTOKEY.__init__, lines 187-208: the structure selected by the header *)
(* type and algorithm.  A type that matches no branch leaves self.key      *)
(* unassigned.                                                             *)
(***************************************************************************)
select(h) ==
    IF h.type \in {KEYSTATEBLOB, OPAQUEKEYBLOB, SYMMETRICWRAPKEYBLOB}
    THEN [err |-> "UnsupportedBlobType", variant |-> "none"]
    ELSE IF h.type = PLAINTEXTKEYBLOB_T
    THEN [err |-> "none", variant |-> "PLAINTEXTKEYBLOB"]
    ELSE IF h.type = SIMPLEBLOB_T
    THEN [err |-> "none", variant |-> "SIMPLEBLOB"]
    ELSE IF h.algorithm \notin {CALG_RSA_KEYX, CALG_RSA_SIGN}
    THEN [err |-> "UnsupportedAlgorithm", variant |-> "none"]
    ELSE IF h.type = PRIVATEKEYBLOB_T
    THEN [err |-> "none", variant |-> "PRIVATEKEYBLOB"]
    ELSE IF h.type = PUBLICKEYBLOB
    THEN [err |-> "none", variant |-> "RSAPUBKEY"]
    ELSE IF h.type = PUBLICKEYBLOBEX
    THEN [err |-> "none", variant |-> "DHPUBKEY"]
    ELSE [err |-> "none", variant |-> "none"]

\* what the caller of CRYPTOKEY(reader) holds afterwards
NoResult == [present |-> FALSE, header |-> EmptyHeader, key |-> EmptyKey]

Object(h, k) == [present |-> TRUE, header |-> h, key |-> k]

\* the first program position inside the constructor of a structure
Entry(v) ==
    CASE v = "PLAINTEXTKEYBLOB" -> "PLAINTEXTKEYBLOB"
      [] v = "SIMPLEBLOB" -> "SIMPLEBLOB"
      [] v = "PRIVATEKEYBLOB" -> "RSAPUBKEY"
      [] v = "RSAPUBKEY" -> "RSAPUBKEY"
      [] v = "DHPUBKEY" -> "DHPUBKEY"
      [] OTHER -> "Done"

\* the whole constructor as a function of the buffer
CRYPTOKEY(b) ==
    LET h == BLOBHEADER(b, 0)
        v == select(h.header)
        s == At(h.pos, [EmptyKey EXCEPT !.kind = v.variant])
        r == CASE v.variant = "PLAINTEXTKEYBLOB" -> PLAINTEXTKEYBLOB(b, s)
               [] v.variant = "SIMPLEBLOB" -> SIMPLEBLOB(b, s)
               [] v.variant = "PRIVATEKEYBLOB" -> PRIVATEKEYBLOB(b, s)
               [] v.variant = "RSAPUBKEY" -> RSAPUBKEY(b, s)
               [] v.variant = "DHPUBKEY" -> DHPUBKEY(b, s)
               [] OTHER -> At(h.pos, EmptyKey)
    IN  IF h.err # "none"
        THEN [err |-> h.err, pos |-> h.pos, result |-> NoResult]
        ELSE IF v.err # "none"
        THEN [err |-> v.err, pos |-> h.pos, result |-> NoResult]
        ELSE IF r.err # "none"
        THEN [err |-> r.err, pos |-> r.pos, result |-> NoResult]
        ELSE [err |-> "none", pos |-> r.pos,
              result |-> Object(h.header, r.key)]

(***************************************************************************)
(* Input buffers.  A blob is synthesised from known field values in the    *)
(* CryptoAPI layout and may be cut short before it is decoded.             *)
(***************************************************************************)
NoFields ==
    [n |-> Unset, e |-> Unset, d |-> Unset, p |-> Unset, q |-> Unset,
     dp |-> Unset, dq |-> Unset, u |-> Unset, bits |-> Unset]

Header(t, a) == <<t, 2, 0, 0>> \o ToLE(a[2], 2) \o ToLE(a[1], 2)

\* byte length used to lay out the integers of a synthesised payload
Bytes(bits) == IF bits > 32 THEN 2 ELSE bits \div 8

RsaPublicPayload(magic, f) ==
    magic \o ToLE(f.bits, 4) \o ToLE(f.e, 4) \o ToLE(f.n, Bytes(f.bits))

RsaPrivatePayload(magic, f) ==
    LET half == Bytes(f.bits) \div 2
    IN  RsaPublicPayload(magic, f)
          \o ToLE(f.p, half) \o ToLE(f.q, half) \o ToLE(f.dp, half)
          \o ToLE(f.dq, half) \o ToLE(f.u, half)
          \o ToLE(f.d, Bytes(f.bits))

DhPayload(magic, f) ==
    magic \o ToLE(f.bits, 4) \o ToLE(f.n, Bytes(f.bits))
          \o ToLE(f.p, Bytes(f.bits)) \o ToLE(f.q, Bytes(f.bits))

PlaintextPayload(n, m) == ToLE(n, 4) \o [j \in 1..m |-> 16 + j]

SimplePayload(magic, m) == magic \o [j \in 1..m |-> 32 + j]

Payload(t, magic, f) ==
    CASE t = PRIVATEKEYBLOB_T -> RsaPrivatePayload(magic, f)
      [] t = PUBLICKEYBLOB -> RsaPublicPayload(magic, f)
      [] t = PUBLICKEYBLOBEX -> DhPayload(magic, f)
      [] t = PLAINTEXTKEYBLOB_T -> PlaintextPayload(2, 2)
      [] t = SIMPLEBLOB_T -> SimplePayload(SIMPLE_MAGIC, 2)
      [] OTHER -> <<>>

GoodMagic(t) == IF t = PUBLICKEYBLOBEX THEN DH1 ELSE RSA2

\* p = 17, q = 19: e * d = 1 modulo lcm(16, 18) = 144, not modulo 16 * 18
SampleKey ==
    [n |-> 323, e |-> 5, d |-> 29, p |-> 17, q |-> 19,
     dp |-> 13, dq |-> 11, u |-> 9, bits |-> 16]

Input(family, bytes, f) == [family |-> family, blob |-> bytes, f |-> f]

\* every type code, registered or not, with every algorithm
HeaderInputs ==
    { Input("header", Header(t, a) \o Payload(pt, GoodMagic(pt), SampleKey),
            NoFields) :
        t \in TYPES \cup {0, 255},
        a \in ALGORITHMS \cup {<<0, \h1234>>},
        pt \in {0, PRIVATEKEYBLOB_T, PUBLICKEYBLOBEX, SIMPLEBLOB_T} }

Primes == 0..MaxPrime \cup {17, 19}
PubExps == {1, 3, 5}
PrivExps == 0..MaxPrivExp \cup {29, 259, 317}

\* private keys of 16 bits: consistent ones, and ones off by a remainder,
\* a wrong exponent or a degenerate factor
KeyInputs ==
    { Input("key",
            Header(PRIVATEKEYBLOB_T, CALG_RSA_KEYX)
               \o RsaPrivatePayload(RSA2,
                     [n |-> p * q + r, e |-> e, d |-> d, p |-> p, q |-> q,
                      dp |-> 13, dq |-> 11, u |-> 9, bits |-> 16]),
            [n |-> p * q + r, e |-> e, d |-> d, p |-> p, q |-> q,
             dp |-> 13, dq |-> 11, u |-> 9, bits |-> 16]) :
        p \in Primes, q \in Primes, r \in 0..MaxRem,
        e \in PubExps, d \in PrivExps }

Magics == {RSA1, RSA2, DH1, DH2, SIMPLE_MAGIC, <<82, 83, 65, 51>>}
BitLengths == {0, 8, 16, 17, 24, 1025}

\* the three structures with a magic and a bit length
FramedInputs ==
    { Input("framed",
            Header(t, a) \o Payload(t, m, [SampleKey EXCEPT !.bits = bits]),
            [SampleKey EXCEPT !.bits = bits]) :
        t \in {PRIVATEKEYBLOB_T, PUBLICKEYBLOB, PUBLICKEYBLOBEX},
        a \in {CALG_RSA_KEYX, CALG_RSA_SIGN},
        m \in Magics, bits \in BitLengths }

RawInputs ==
    { Input("plaintext",
            Header(PLAINTEXTKEYBLOB_T, a) \o PlaintextPayload(n, m),
            [NoFields EXCEPT !.n = n]) :
        a \in {CALG_RSA_KEYX, <<0, \h6610>>},
        n \in 0..MaxData, m \in 0..(MaxData + 1) }
    \cup
    { Input("simple",
            Header(SIMPLEBLOB_T, a) \o SimplePayload(m, n), NoFields) :
        a \in {CALG_RSA_KEYX, <<0, \h6610>>},
        m \in {SIMPLE_MAGIC, RSA2, <<0, 0, 164, 1>>},
        n \in 0..MaxData }

Inputs == HeaderInputs \cup KeyInputs \cup FramedInputs \cup RawInputs

\* the lengths at which an input may be cut
Cuts(i) ==
    IF i.family \in {"framed", "plaintext", "simple"}
    THEN 0..Len(i.blob) ELSE {Len(i.blob)}

(***************************************************************************)
(* The decoder as a state machine.                                         *)
(***************************************************************************)
Init ==
    /\ inp \in Inputs
    /\ \E c \in Cuts(inp) : buf = SubSeq(inp.blob, 1, c)
    /\ pos = 0
    /\ pc = "Start"
    /\ variant = "none"
    /\ header = EmptyHeader
    /\ key = EmptyKey
    /\ err = "none"
    /\ result = NoResult

\* the outcome r of a constructor stage; next is the position after it
Advance(r, next) ==
    /\ pos' = r.pos
    /\ key' = r.key
    /\ err' = r.err
    /\ pc' = IF r.err # "none" THEN "Error" ELSE next
    /\ result' = IF r.err = "none" /\ next = "Done"
                 THEN Object(header, r.key) ELSE result
    /\ UNCHANGED <<buf, inp, variant, header>>

ReadHeader ==
    /\ pc = "Start"
    /\ LET h == BLOBHEADER(buf, pos)
       IN  /\ pos' = h.pos
           /\ header' = h.header
           /\ err' = h.err
           /\ pc' = IF h.err # "none" THEN "Error" ELSE "HeaderRead"
    /\ UNCHANGED <<buf, inp, variant, key, result>>

Dispatch ==
    /\ pc = "HeaderRead"
    /\ LET v == select(header)
       IN  /\ variant' = v.variant
           /\ err' = v.err
           /\ key' = [EmptyKey EXCEPT !.kind = v.variant]
           /\ pc' = IF v.err # "none" THEN "Error" ELSE Entry(v.variant)
           /\ result' = IF v.err = "none" /\ Entry(v.variant) = "Done"
                        THEN Object(header, EmptyKey) ELSE result
    /\ UNCHANGED <<buf, inp, pos, header>>

DecodePlaintext ==
    /\ pc = "PLAINTEXTKEYBLOB"
    /\ Advance(PLAINTEXTKEYBLOB(buf, At(pos, key)), "Done")

DecodeSimple ==
    /\ pc = "SIMPLEBLOB"
    /\ Advance(SIMPLEBLOB(buf, At(pos, key)), "Done")

DecodeRsaPubHead ==
    /\ pc = "RSAPUBKEY"
    /\ Advance(RSAPUBKEY_head(buf, At(pos, key)), "RSAPUBKEY_modulus")

DecodeRsaPubModulus ==
    /\ pc = "RSAPUBKEY_modulus"
    /\ Advance(RSAPUBKEY_modulus(buf, At(pos, key)),
               IF variant = "PRIVATEKEYBLOB" THEN "PRIVATEKEYBLOB_fields"
               ELSE "Done")

DecodePrivateFields ==
    /\ pc = "PRIVATEKEYBLOB_fields"
    /\ Advance(PRIVATEKEYBLOB_fields(buf, At(pos, key)), "_check")

Check ==
    /\ pc = "_check"
    /\ Advance(_check(At(pos, key)), "Done")

DecodeDhHead ==
    /\ pc = "DHPUBKEY"
    /\ Advance(DHPUBKEY_head(buf, At(pos, key)), "DHPUBKEY_ints")

DecodeDhInts ==
    /\ pc = "DHPUBKEY_ints"
    /\ Advance(DHPUBKEY_ints(buf, At(pos, key)), "Done")

Next ==
    \/ ReadHeader
    \/ Dispatch
    \/ DecodePlaintext
    \/ DecodeSimple
    \/ DecodeRsaPubHead
    \/ DecodeRsaPubModulus
    \/ DecodePrivateFields
    \/ Check
    \/ DecodeDhHead
    \/ DecodeDhInts

Spec == Init /\ [][Next]_vars

\* a constructor that has been entered runs on until it returns or raises
FairSpec == Spec /\ WF_vars(Next)

Terminal == pc \in {"Done", "Error"}

\* the step-wise decoder ends as the constructor taken as a whole does
StepwiseAgrees ==
    Terminal =>
        /\ err = CRYPTOKEY(buf).err
        /\ result = CRYPTOKEY(buf).result
        /\ pos = CRYPTOKEY(buf).pos
        /\ (pc = "Done") = (err = "none")

(***************************************************************************)
(* Properties.                                                             *)
(***************************************************************************)
PrivateRead == variant = "PRIVATEKEYBLOB" /\ key.exponent # Unset

\* C1: every successfully decoded PRIVATEKEYBLOB has modulus = prime1 *
\* prime2 exactly (quotient prime2 and remainder zero), and a blob whose
\* modulus is prime1 * prime2 + r with 0 < r < prime1 is rejected.
C1_ExactFactorization ==
    /\ (pc = "Done" /\ variant = "PRIVATEKEYBLOB") =>
          /\ result.key.modulus \div result.key.prime1 = result.key.prime2
          /\ result.key.modulus % result.key.prime1 = 0
    /\ (Terminal /\ inp.family = "key"
          /\ 0 < inp.f.n - inp.f.p * inp.f.q
          /\ inp.f.n - inp.f.p * inp.f.q < inp.f.p) => pc = "Error"

\* a consistent key: n = p * q with e * d = 1 modulo the reduced totient
ConsistentKey(f) ==
    /\ f.p > 1 /\ f.q > 1 /\ f.n = f.p * f.q
    /\ (f.e * f.d) % (((f.p - 1) * (f.q - 1)) \div gcd(f.p - 1, f.q - 1)) = 1

\* C2: a private blob synthesised from known (n, e, d, p, q, u), the private
\* exponent laid out on the full modulus length, decodes to exactly those
\* values and the decoder consumes the whole payload.
C2_RoundTrip ==
    (Terminal /\ inp.family = "key" /\ ConsistentKey(inp.f)) =>
        /\ pc = "Done"
        /\ pos = Len(inp.blob)
        /\ result.key.modulus = inp.f.n
        /\ result.key.pubexp = inp.f.e
        /\ result.key.prime1 = inp.f.p
        /\ result.key.prime2 = inp.f.q
        /\ result.key.exp1 = inp.f.dp
        /\ result.key.exp2 = inp.f.dq
        /\ result.key.coefficient = inp.f.u
        /\ result.key.exponent = inp.f.d

ReducedTotient(k) ==
    ((k.prime1 - 1) * (k.prime2 - 1)) \div gcd(k.prime1 - 1, k.prime2 - 1)

EulerTotient(k) == (k.prime1 - 1) * (k.prime2 - 1)

\* C3: every successfully decoded PRIVATEKEYBLOB has publicExponent *
\* privateExponent = 1 modulo the reduced totient, and fields that pass the
\* factorization check and are inverse modulo the reduced totient are never
\* rejected, whether or not they are inverse modulo (p - 1) * (q - 1).
C3_ReducedTotient ==
    /\ (pc = "Done" /\ variant = "PRIVATEKEYBLOB") =>
          /\ ReducedTotient(key) > 0
          /\ (key.pubexp * key.exponent) % ReducedTotient(key) = 1
    /\ (Terminal /\ PrivateRead /\ key.prime1 > 1 /\ key.prime2 > 1
          /\ key.modulus \div key.prime1 = key.prime2
          /\ (key.pubexp * key.exponent) % ReducedTotient(key) = 1)
       => pc = "Done"

\* an accepted key that is not consistent modulo the Euler product
C3_Witness ==
    /\ pc = "Done" /\ variant = "PRIVATEKEYBLOB"
    /\ gcd(key.prime1 - 1, key.prime2 - 1) > 1
    /\ (key.pubexp * key.exponent) % EulerTotient(key) # 1

\* the fields fail the factorization check or the exponent-inverse check
ChecksFail(k) ==
    \/ k.prime1 = 0
    \/ k.modulus \div k.prime1 # k.prime2
    \/ gcd(k.prime1 - 1, k.prime2 - 1) = 0
    \/ ReducedTotient(k) = 0
    \/ PyMod(k.pubexp * k.exponent, ReducedTotient(k)) # 1

\* C4: fully read private key fields that fail either check end the decode
\* in InconsistentKeyMaterial with no key, also for prime1 = 0, prime1 = 1
\* and prime2 = 1.
C4_SingleErrorKind ==
    (Terminal /\ PrivateRead /\ ChecksFail(key)) =>
        /\ pc = "Error"
        /\ err = "InconsistentKeyMaterial"
        /\ ~result.present

HeaderDecoded ==
    /\ pc \notin {"Start", "HeaderRead"}
    /\ header.type \in TYPES
    /\ header.algorithm \in ALGORITHMS

\* C5: once the header is read, a KEYSTATEBLOB, OPAQUEKEYBLOB or
\* SYMMETRICWRAPKEYBLOB ends in UnsupportedBlobType for every algorithm and
\* buffer content: no structure is selected and the cursor stays at 8.
C5_UnsupportedTypes ==
    (HeaderDecoded
       /\ header.type \in {KEYSTATEBLOB, OPAQUEKEYBLOB, SYMMETRICWRAPKEYBLOB})
    => /\ pc = "Error"
       /\ err = "UnsupportedBlobType"
       /\ variant = "none"
       /\ key.kind = "none"
       /\ pos = 8
       /\ ~result.present

\* a session-bound type rejected although an RSA payload follows the header
C5_Witness ==
    /\ pc = "Error" /\ err = "UnsupportedBlobType"
    /\ header.type = SYMMETRICWRAPKEYBLOB
    /\ header.algorithm = CALG_RSA_KEYX
    /\ Len(buf) > 8 /\ pos = 8

\* the program positions inside each structure's constructor
Stages(v) ==
    CASE v = "PRIVATEKEYBLOB" ->
            {"RSAPUBKEY", "RSAPUBKEY_modulus", "PRIVATEKEYBLOB_fields",
             "_check"}
      [] v = "RSAPUBKEY" -> {"RSAPUBKEY", "RSAPUBKEY_modulus"}
      [] v = "DHPUBKEY" -> {"DHPUBKEY", "DHPUBKEY_ints"}
      [] v = "PLAINTEXTKEYBLOB" -> {"PLAINTEXTKEYBLOB"}
      [] v = "SIMPLEBLOB" -> {"SIMPLEBLOB"}
      [] OTHER -> {}

\* C6: for PRIVATEKEYBLOB, PUBLICKEYBLOB and PUBLICKEYBLOBEX an algorithm
\* other than CALG_RSA_KEYX and CALG_RSA_SIGN ends in UnsupportedAlgorithm
\* with the cursor at 8; otherwise exactly the decoder of the type runs:
\* RsaPrivate, RsaPublic and DhPublic respectively.
C6_RsaBranch ==
    (HeaderDecoded
       /\ header.type \in {PRIVATEKEYBLOB_T, PUBLICKEYBLOB, PUBLICKEYBLOBEX})
    => IF header.algorithm \notin {CALG_RSA_KEYX, CALG_RSA_SIGN}
       THEN /\ pc = "Error" /\ err = "UnsupportedAlgorithm"
            /\ variant = "none" /\ key.kind = "none" /\ pos = 8
       ELSE /\ variant =
                 CASE header.type = PRIVATEKEYBLOB_T -> "PRIVATEKEYBLOB"
                   [] header.type = PUBLICKEYBLOB -> "RSAPUBKEY"
                   [] header.type = PUBLICKEYBLOBEX -> "DHPUBKEY"
            /\ key.kind = variant
            /\ pc \in Stages(variant) \cup {"Done", "Error"}
            /\ err # "UnsupportedAlgorithm"

\* a PUBLICKEYBLOBEX with an RSA algorithm decoded as a DhPublic
C6_Witness ==
    /\ pc = "Done" /\ header.type = PUBLICKEYBLOBEX
    /\ header.algorithm = CALG_RSA_SIGN
    /\ result.key.kind = "DHPUBKEY" /\ result.key.generator # Unset

\* C7: a PLAINTEXTKEYBLOB or SIMPLEBLOB is decoded whatever the algorithm;
\* a plaintext payload of a length n and at least n bytes yields n bytes of
\* data, and a simple payload that starts with 00 00 A4 00 yields a Simple
\* structure with its data, not an error.
C7_RawVariants ==
    (Terminal /\ HeaderDecoded
       /\ header.type \in {PLAINTEXTKEYBLOB_T, SIMPLEBLOB_T})
    => /\ err # "UnsupportedAlgorithm"
       /\ (header.type = PLAINTEXTKEYBLOB_T /\ Len(buf) >= 12
             /\ Len(buf) >= 12 + FromLE(SubSeq(buf, 9, 12)))
          => /\ pc = "Done"
             /\ result.key.kind = "PLAINTEXTKEYBLOB"
             /\ Len(result.key.data) = FromLE(SubSeq(buf, 9, 12))
       /\ (header.type = SIMPLEBLOB_T /\ Len(buf) >= 12
             /\ SubSeq(buf, 9, 12) = SIMPLE_MAGIC)
          => /\ pc = "Done"
             /\ result.key.kind = "SIMPLEBLOB"
             /\ result.key.data # NoBytes

\* C8: every proper prefix of a blob that decodes successfully (and is
\* consumed to its last byte) ends in Underflow.
C8_TruncationUnderflows ==
    (Terminal /\ CRYPTOKEY(inp.blob).err = "none"
       /\ CRYPTOKEY(inp.blob).pos = Len(inp.blob)
       /\ Len(buf) < Len(inp.blob))
    => pc = "Error" /\ err = "Underflow"

\* the magic and the bit length as they stand in the buffer
MagicAt9 == SubSeq(buf, 9, 12)
BitsAt13 == FromLE(SubSeq(buf, 13, 16))

\* C9: RsaPublic, RsaPrivate and DhPublic consume no byte of a big integer
\* unless the magic is allowed and the bit length is a multiple of 8; a bad
\* magic ends in InvalidMagic and a bad bit length in InvalidBitLength with
\* the cursor not past the first big integer; a Simple blob with a wrong
\* magic is rejected before its payload is read.
C9_CheckedBeforeIntegers ==
    /\ (variant \in {"RSAPUBKEY", "PRIVATEKEYBLOB"} /\ pos > 20) =>
          MagicAt9 \in {RSA1, RSA2} /\ BitsAt13 % 8 = 0
    /\ (variant = "DHPUBKEY" /\ pos > 16) =>
          MagicAt9 \in {DH1, DH2} /\ BitsAt13 % 8 = 0
    /\ (Terminal /\ variant \in {"RSAPUBKEY", "PRIVATEKEYBLOB"}
          /\ Len(buf) >= 20) =>
          /\ MagicAt9 \notin {RSA1, RSA2} =>
                err = "InvalidMagic" /\ pos <= 20 /\ key.modulus = Unset
          /\ (MagicAt9 \in {RSA1, RSA2} /\ BitsAt13 % 8 # 0) =>
                err = "InvalidBitLength" /\ pos <= 20 /\ key.modulus = Unset
    /\ (Terminal /\ variant = "DHPUBKEY" /\ Len(buf) >= 16) =>
          /\ MagicAt9 \notin {DH1, DH2} =>
                err = "InvalidMagic" /\ pos <= 16 /\ key.public = Unset
          /\ (MagicAt9 \in {DH1, DH2} /\ BitsAt13 % 8 # 0) =>
                err = "InvalidBitLength" /\ pos <= 16 /\ key.public = Unset
    /\ (Terminal /\ variant = "SIMPLEBLOB" /\ Len(buf) >= 12
          /\ MagicAt9 # SIMPLE_MAGIC) =>
          err = "InvalidMagic" /\ pos = 12 /\ key.data = NoBytes

\* a bit length of 17 rejected while the modulus bytes are still unread
C9_Witness ==
    /\ pc = "Error" /\ err = "InvalidBitLength"
    /\ variant = "RSAPUBKEY" /\ BitsAt13 = 17
    /\ pos = 20 /\ Len(buf) > 20

\* the structure a header type stands for
KindOf(t) ==
    CASE t = PLAINTEXTKEYBLOB_T -> "PLAINTEXTKEYBLOB"
      [] t = SIMPLEBLOB_T -> "SIMPLEBLOB"
      [] t = PRIVATEKEYBLOB_T -> "PRIVATEKEYBLOB"
      [] t = PUBLICKEYBLOB -> "RSAPUBKEY"
      [] t = PUBLICKEYBLOBEX -> "DHPUBKEY"
      [] OTHER -> "unsupported"

RsaPublicSet(k) ==
    /\ k.magic # NoBytes /\ k.size # Unset
    /\ k.pubexp # Unset /\ k.modulus # Unset

Populated(k) ==
    CASE k.kind = "PLAINTEXTKEYBLOB" ->
            k.size # Unset /\ k.data # NoBytes /\ Len(k.data) = k.size
      [] k.kind = "SIMPLEBLOB" -> k.magic # NoBytes /\ k.data # NoBytes
      [] k.kind = "RSAPUBKEY" -> RsaPublicSet(k)
      [] k.kind = "PRIVATEKEYBLOB" ->
            /\ RsaPublicSet(k)
            /\ k.prime1 # Unset /\ k.prime2 # Unset /\ k.exp1 # Unset
            /\ k.exp2 # Unset /\ k.coefficient # Unset /\ k.exponent # Unset
      [] k.kind = "DHPUBKEY" ->
            /\ k.magic # NoBytes /\ k.size # Unset /\ k.public # Unset
            /\ k.prime # Unset /\ k.generator # Unset
      [] OTHER -> FALSE

\* C10: every decode goes on until it is Done or in Error; Done carries the
\* header and a fully populated key of the kind of the header type; Error
\* leaves no object, whole or partial, with the caller.
C10_Outcome ==
    /\ ~Terminal => ~result.present
    /\ pc = "Done" =>
          /\ err = "none"
          /\ result.present
          /\ result.header = header
          /\ header.type \in TYPES /\ header.algorithm \in ALGORITHMS
          /\ result.key.kind = KindOf(header.type)
          /\ Populated(result.key)
    /\ pc = "Error" => err # "none" /\ result = NoResult

C10_AllOrNothing == []C10_Outcome /\ <>Terminal

\* a private key handed to the caller with every field read from the buffer
C10_Witness ==
    /\ pc = "Done" /\ result.present
    /\ result.key.kind = "PRIVATEKEYBLOB" /\ Populated(result.key)
    /\ result.key.modulus = 323 /\ result.key.exponent = 29

====
